---- MODULE Spec2Model ----
(***************************************************************************)
(* Model of the shai command-line assistant: the proposer call, the        *)
(* risk-tier confirmation (display_shell_command), the hazard-pattern gate  *)
(* and the runner (execute_shell_command), for both entry points            *)
(* src/shai_python/main.py and src/shai/main.py.                            *)
(*                                                                         *)
(* Text is modelled as sequences of one-character strings, so that          *)
(* str.strip, str.lower, comparison by == and re.search are computed as     *)
(* Python computes them.                                                    *)
(***************************************************************************)
EXTENDS Integers, Sequences, FiniteSets, TLC

(***************************************************************************)
(* Bounds of the model.                                                     *)
(***************************************************************************)
\* longest run of whitespace between the tokens of a generated rm command
MaxWs == 2
\* how many empty lines the user may type at the ">> " prompt
MaxEmptyPrompts == 1
\* how many frames loading_animation draws at most
MaxFrames == 2

(***************************************************************************)
(* str helpers: str.lower, str.upper, str.strip, whitespace.                *)
(***************************************************************************)
UpperLetters == <<"A","B","C","D","E","F","G","H","I","J","K","L","M",
                  "N","O","P","Q","R","S","T","U","V","W","X","Y","Z">>

LowerLetters == <<"a","b","c","d","e","f","g","h","i","j","k","l","m",
                  "n","o","p","q","r","s","t","u","v","w","x","y","z">>

\* characters str.strip() removes and the regex class \s matches
IsSpace(c) == c \in {" ", "\t", "\n", "\r"}

LowerChar(c) ==
    IF \E i \in 1..26 : UpperLetters[i] = c
    THEN LowerLetters[CHOOSE i \in 1..26 : UpperLetters[i] = c]
    ELSE c

UpperChar(c) ==
    IF \E i \in 1..26 : LowerLetters[i] = c
    THEN UpperLetters[CHOOSE i \in 1..26 : LowerLetters[i] = c]
    ELSE c

\* str.lower()
Lower(s) == [i \in 1..Len(s) |-> LowerChar(s[i])]

\* str.upper()
Upper(s) == [i \in 1..Len(s) |-> UpperChar(s[i])]

RECURSIVE LStrip(_)
LStrip(s) == IF s # <<>> /\ IsSpace(Head(s)) THEN LStrip(Tail(s)) ELSE s

RECURSIVE RStrip(_)
RStrip(s) ==
    IF s # <<>> /\ IsSpace(s[Len(s)]) THEN RStrip(SubSeq(s, 1, Len(s) - 1)) ELSE s

\* str.strip()
Strip(s) == RStrip(LStrip(s))

\* concatenation of a sequence of texts
RECURSIVE Concat(_)
Concat(ss) == IF ss = <<>> THEN <<>> ELSE Head(ss) \o Concat(Tail(ss))

(***************************************************************************)
(* re.search for the regular expressions of dangerous_patterns.  A pattern  *)
(* is a set of alternatives (the top-level |); an alternative is a sequence *)
(* of tokens: a literal character, \s+ or \s*.                              *)
(***************************************************************************)
Lit(c) == [kind |-> "lit", c |-> c]
WsPlus == [kind |-> "ws+", c |-> " "]
WsStar == [kind |-> "ws*", c |-> " "]
Lits(s) == [i \in 1..Len(s) |-> Lit(s[i])]

\* does alternative alt, from its token i on, match s starting at position j
RECURSIVE MatchAt(_, _, _, _)
MatchAt(alt, s, i, j) ==
    IF i > Len(alt) THEN TRUE
    ELSE LET t == alt[i] IN
         CASE t.kind = "lit" ->
                /\ j <= Len(s)
                /\ s[j] = t.c
                /\ MatchAt(alt, s, i + 1, j + 1)
           [] t.kind = "ws+" ->
                /\ j <= Len(s)
                /\ IsSpace(s[j])
                /\ \/ MatchAt(alt, s, i, j + 1)
                   \/ MatchAt(alt, s, i + 1, j + 1)
           [] t.kind = "ws*" ->
                \/ MatchAt(alt, s, i + 1, j)
                \/ /\ j <= Len(s)
                   /\ IsSpace(s[j])
                   /\ MatchAt(alt, s, i, j + 1)

\* re.search(pattern, s) is not None
ReSearch(pattern, s) ==
    \E alt \in pattern : \E j \in 1..(Len(s) + 1) : MatchAt(alt, s, 1, j)

RmRf == Lits(<<"r","m">>) \o <<WsPlus>> \o Lits(<<"-","r","f">>) \o <<WsPlus>>

\* the list dangerous_patterns of execute_shell_command, in list order
dangerous_patterns ==
    << {RmRf \o Lits(<<"/">>)},
       {RmRf \o Lits(<<"$","H","O","M","E">>)},
       {RmRf \o Lits(<<"*">>)},
       {Lits(<<">">>) \o <<WsStar>> \o Lits(<<"/","d","e","v","/","s","d","a">>)},
       {Lits(<<"d","d">>) \o <<WsPlus>> \o Lits(<<"i","f","=">>)},
       {Lits(<<":","(",")","{">>) \o <<WsStar>> \o Lits(<<":">>),
        <<WsStar>> \o Lits(<<"&">>) \o <<WsStar>> \o Lits(<<"}",";">>)} >>

\* indices of the patterns the command matches
MatchingPatterns(command) ==
    {k \in 1..Len(dangerous_patterns) : ReSearch(dangerous_patterns[k], command)}

\* mutant of NextMatch: every pattern of the list counts as a match
NextMatch_EveryPattern(command, k) ==
    IF k <= Len(dangerous_patterns) THEN k ELSE 0

\* mutant of NextMatch: the gate asks once per command (any(...) instead of
\* one prompt per matching pattern)
NextMatch_OncePerCommand(command, k) ==
    IF k > 1 \/ MatchingPatterns(command) = {} THEN 0
    ELSE CHOOSE m \in MatchingPatterns(command) :
            \A n \in MatchingPatterns(command) : m <= n

\* mutant of NextMatch: the for loop never finds a matching pattern
NextMatch_NoMatch(command, k) == 0

\* the for loop of execute_shell_command resumed at list index k: the index
\* of the next pattern that matches, 0 when the loop runs to its end
NextMatch(command, k) ==
    LET later == {m \in MatchingPatterns(command) : m >= k}
    IN  IF later = {} THEN 0
        ELSE CHOOSE m \in later : \A n \in later : m <= n

(***************************************************************************)
(* strings.py: the Translator.  A translation is a template: a sequence of  *)
(* literal pieces and {placeholders}.  Rendered text is a sequence of       *)
(* strings.  The zh table is written in ASCII stand-ins ("zh:...") for the  *)
(* Chinese literals; the placeholders are those of the source.              *)
(***************************************************************************)
Txt(s) == [kind |-> "lit", v |-> s]
Ph(n) == [kind |-> "ph", v |-> n]

en_translations ==
    ("thinking" :> <<Txt("Thinking...")>>) @@
    ("dangerous_pattern_detected" :>
        <<Txt("Dangerous command pattern detected: "), Ph("command")>>) @@
    ("confirm_dangerous_command" :>
        <<Txt("Are you sure you want to execute this dangerous command? (YES/no): ")>>) @@
    ("dangerous_command_cancelled" :> <<Txt("Dangerous command cancelled.")>>) @@
    ("command_execution_failed" :>
        <<Txt("Command execution failed, exit code: "), Ph("exit_code")>>) @@
    ("risk_level_prompt" :>
        <<Txt("This command has a risk level of "), Ph("risk_level"),
          Txt(", still execute? (YES/no): ")>>) @@
    ("execute_prompt" :>
        <<Txt("["), Ph("risk_level"), Txt("]Execute this command? (y/N): ")>>) @@
    ("command_not_executed" :> <<Txt("Command not executed.")>>) @@
    ("config_init_error" :> <<Txt("Error initializing config: "), Ph("error")>>) @@
    ("config_file_missing" :> <<Txt("Configuration file missing.")>>) @@
    ("error" :> <<Txt("Error: "), Ph("error")>>) @@
    ("model_not_found" :> <<Txt("Model not found: "), Ph("model_name")>>) @@
    ("provider_not_configured" :>
        <<Txt("Provider not configured: "), Ph("provider_name")>>) @@
    ("env_var_not_defined" :>
        <<Txt("Environment variable not defined: "), Ph("var_name")>>)

zh_translations ==
    ("thinking" :> <<Txt("zh:Thinking...")>>) @@
    ("dangerous_pattern_detected" :>
        <<Txt("zh:Dangerous command pattern detected: "), Ph("command")>>) @@
    ("confirm_dangerous_command" :>
        <<Txt("zh:Are you sure you want to execute this dangerous command? (YES/no): ")>>) @@
    ("dangerous_command_cancelled" :> <<Txt("zh:Dangerous command cancelled.")>>) @@
    ("command_execution_failed" :>
        <<Txt("zh:Command execution failed, exit code: "), Ph("exit_code")>>) @@
    ("risk_level_prompt" :>
        <<Txt("zh:This command has a risk level of "), Ph("risk_level"),
          Txt("zh:, still execute? (YES/no): ")>>) @@
    ("execute_prompt" :>
        <<Txt("["), Ph("risk_level"), Txt("]zh:Execute this command? (y/N): ")>>) @@
    ("command_not_executed" :> <<Txt("zh:Command not executed.")>>) @@
    ("config_init_error" :> <<Txt("zh:Config file error: "), Ph("error")>>) @@
    ("config_file_missing" :> <<Txt("zh:Configuration file missing")>>) @@
    ("error" :> <<Txt("zh:Error: "), Ph("error")>>) @@
    ("model_not_found" :> <<Txt("zh:Model not found: "), Ph("model_name")>>) @@
    ("provider_not_configured" :>
        <<Txt("zh:Provider not configured: "), Ph("provider_name")>>) @@
    ("env_var_not_defined" :>
        <<Txt("zh:Environment variable not defined: "), Ph("var_name")>>)

\* Translator.load_translations
translations == ("en" :> en_translations) @@ ("zh" :> zh_translations)

\* no keyword arguments
NoKwargs == [n \in {} |-> <<>>]

\* a template returned unformatted: placeholders stay as written, in braces
Raw(template) ==
    Concat([i \in 1..Len(template) |->
              IF template[i].kind = "ph"
              THEN <<"{", template[i].v, "}">>
              ELSE <<template[i].v>>])

\* str.format(**kwargs) when every placeholder has a keyword argument
Format(template, kwargs) ==
    Concat([i \in 1..Len(template) |->
              IF template[i].kind = "ph"
              THEN kwargs[template[i].v]
              ELSE <<template[i].v>>])

\* Translator.get(key, **kwargs): an unknown key is its own translation; a
\* placeholder without a keyword argument (KeyError) returns it unformatted
Get(language, key, kwargs) ==
    LET table == translations[language]
        translation == IF key \in DOMAIN table THEN table[key] ELSE <<Txt(key)>>
    IN  IF DOMAIN kwargs # {}
        THEN IF \A i \in 1..Len(translation) :
                    translation[i].kind = "ph" => translation[i].v \in DOMAIN kwargs
             THEN Format(translation, kwargs)
             ELSE Raw(translation)
        ELSE Raw(translation)

\* msg occurs in text as a contiguous run of pieces
Contains(text, msg) ==
    \E i \in 0..(Len(text) - Len(msg)) : SubSeq(text, i + 1, i + Len(msg)) = msg

(***************************************************************************)
(* Colours and risk formatting.                                             *)
(***************************************************************************)
safe == <<"s","a","f","e">>
caution == <<"c","a","u","t","i","o","n">>
danger == <<"d","a","n","g","e","r">>

\* shai_python: risk_color.get(risk.lower(), RESET)
risk_color(risk) ==
    CASE Lower(risk) = safe -> "GREEN"
      [] Lower(risk) = caution -> "YELLOW"
      [] Lower(risk) = danger -> "RED"
      [] OTHER -> "RESET"

\* shai: get_color_for_danger(danger_level)
get_color_for_danger(danger_level) ==
    IF Lower(danger_level) = safe THEN "GREEN"
    ELSE IF Lower(danger_level) = caution THEN "YELLOW"
    ELSE "RED"

ColorOf(v, risk) ==
    IF v = "shai_python" THEN risk_color(risk) ELSE get_color_for_danger(risk)

\* format_danger_level(danger_level)
format_danger_level(v, danger_level) ==
    <<ColorOf(v, danger_level)>> \o Upper(danger_level) \o <<"RESET">>

(***************************************************************************)
(* Inputs of the model: the variants, commands, risk strings, typed lines.  *)
(***************************************************************************)
\* the two entry points: src/shai_python/main.py and src/shai/main.py
Variants == {"shai_python", "shai"}

YES == <<"Y","E","S">>
yes == <<"y","e","s">>
y == <<"y">>

\* lines the user may type at a confirmation prompt (input() drops the newline)
Lines ==
    { YES, yes, <<"Y","e","s">>, y, <<"Y">>, <<>>, <<" ","y">>, <<"n">>,
      <<"Y","E","S"," ">> }

\* risk strings the proposer may declare
Risks == { safe, caution, danger, <<"D","a","n","g","e","r">>,
           <<"u","n","k","n","o","w","n">> }

KnownTiers == {safe, caution, danger}

Spaces(n) == [i \in 1..n |-> " "]

\* spellings of the recursive and force flags of rm
RmFlagSpellings == { <<"-","r","f">>, <<"-","f","r">>, <<"-","r"," ","-","f">> }

\* recursive forced deletes of /, with 1..MaxWs blanks between the tokens
RmRootCommands ==
    { <<"r","m">> \o Spaces(a) \o f \o Spaces(b) \o <<"/">> :
        a \in 1..MaxWs, b \in 1..MaxWs, f \in RmFlagSpellings }

LsLa == <<"l","s"," ","-","l","a">>
DdZero == <<"d","d"," ","i","f","=","/","d","e","v","/","z","e","r","o"," ",
            "o","f","=","/","d","e","v","/","s","d","a">>
RmRootRmStar == <<"r","m"," ","-","r","f"," ","/"," ",";"," ",
                  "r","m"," ","-","r","f"," ","*">>
ForkBomb == <<":","(",")","{"," ",":","|",":","&"," ","}",";",":">>
EchoSda == <<"e","c","h","o"," ","x"," ",">"," ","/","d","e","v","/","s","d","a">>
RmHome == <<"r","m"," ","-","r","f"," ","$","H","O","M","E">>
FalseCmd == <<"f","a","l","s","e">>

\* commands the proposer may return
Commands ==
    RmRootCommands \cup {LsLa, DdZero, RmRootRmStar, ForkBomb, EchoSda, RmHome, FalseCmd}

\* exit statuses of the launched command
ExitCodes == {0, 1, 127}
CodeText == (0 :> <<"0">>) @@ (1 :> <<"1">>) @@ (127 :> <<"127">>)

\* str(e) of the exceptions agent.run_sync may raise
ProposerErrors == { <<"Connection error.">>, <<"status_code: 401">> }

\* sys.argv[1:] joined, and lines typed at the ">> " prompt
ConfigWord == <<"c","o","n","f","i","g">>
Cfg == <<"c","f","g">>
ListFiles == <<"l","i","s","t"," ","f","i","l","e","s">>
ArgvPrompts == { <<>>, <<"C","o","n","f","i","g">>, ListFiles }
PromptLines == { <<" ">>, <<" ">> \o Cfg }

\* results of ConfigManager.ensure_config
EnsureResults == {"created", "exists", "template_error"}

\* how the try block of main that loads the configuration and builds the agent
\* ends: "ok", or the error that left it
ConfigOutcomes ==
    { "ok", "config_file_missing", "validation_error", "model_not_found",
      "provider_not_configured", "env_var_not_defined", "agent_error" }

(***************************************************************************)
(* config.py                                                                *)
(***************************************************************************)
\* ConfigManager.get_edit_command on a POSIX host with EDITOR unset
get_edit_command ==
    [command |-> <<"v","i","m"," ","~","/",".","c","o","n","f","i","g","/",
                   "s","h","a","i","/","c","o","n","f","i","g",".","y","a","m","l">>,
     risk |-> safe]

NoCommand == [command |-> <<>>, risk |-> <<>>]

(***************************************************************************)
(* State.                                                                   *)
(***************************************************************************)
VARIABLES
    variant,      \* which main.py runs
    language,     \* Translator.language
    pc,           \* where the process is
    user_prompt,  \* main: user_prompt
    empties,      \* empty lines read by the while loop of main so far
    shell_cmd,    \* the ShellCommand handed to display_shell_command
    site,         \* which call of display_shell_command in main is active
    patIdx,       \* execute_shell_command: list index the for loop is at
    log,          \* what the process printed, read and launched, in order
    returncode,   \* exit status of the launched command, -1 before it ran
    exit_status,  \* exit status of the tool, -1 while it runs
    stop_event,   \* run_with_animation: stop_event.is_set()
    anim,         \* the animation thread: "none", "running" or "terminated"
    idx,          \* loading_animation: idx
    pending       \* run_with_animation: what func returned or raised

vars == <<variant, language, pc, user_prompt, empties, shell_cmd, site, patIdx,
          log, returncode, exit_status, stop_event, anim, idx, pending>>

NoPending == [kind |-> "none", value |-> <<>>, risk |-> <<>>]

Ev(ev, key, text) == [ev |-> ev, key |-> key, text |-> text]

\* text of a message: the Translator in shai_python, an f-string with the
\* English text in shai
Msg(v, lang, key, kwargs) ==
    IF v = "shai_python" THEN Get(lang, key, kwargs)
    ELSE IF DOMAIN kwargs # {} THEN Format(en_translations[key], kwargs)
    ELSE Raw(en_translations[key])

Init ==
    /\ variant \in Variants
    /\ language \in {"en", "zh"}
    /\ variant = "shai" => language = "en"
    /\ pc = "main"
    /\ user_prompt = <<>>
    /\ empties = 0
    /\ shell_cmd = NoCommand
    /\ site = "none"
    /\ patIdx = 1
    /\ log = <<>>
    /\ returncode = -1
    /\ exit_status = -1
    /\ stop_event = FALSE
    /\ anim = "none"
    /\ idx = 0
    /\ pending = NoPending

(***************************************************************************)
(* main, up to the proposer call.                                           *)
(***************************************************************************)
\* the words main takes as a request to edit the configuration
ConfigWords(v) ==
    IF v = "shai_python"
    THEN { ConfigWord, <<"c","o","n","f","i","g","u","r","e">>, Cfg,
           <<"c","o","n","f","g">>, <<"c","o","m","f","i","g">> }
    ELSE { ConfigWord }

\* str(e) of the exception that left the configuration try block
ConfigErrorText(v, lang, outcome) ==
    CASE outcome = "config_file_missing" -> Msg(v, lang, "config_file_missing", NoKwargs)
      [] outcome = "model_not_found" ->
            Msg(v, lang, "model_not_found", "model_name" :> <<"default_model">>)
      [] outcome = "provider_not_configured" ->
            Msg(v, lang, "provider_not_configured", "provider_name" :> <<"provider">>)
      [] outcome = "env_var_not_defined" ->
            Msg(v, lang, "env_var_not_defined", "var_name" :> <<"$API_KEY">>)
      [] outcome = "validation_error" -> <<"validation error for GlobalConfig">>
      [] OTHER -> <<"agent construction failed">>

\* mutant of ShowEditCommand: the edit command is handed to
\* execute_shell_command directly, without display_shell_command
ShowEditCommand_NoGate(s) ==
    /\ shell_cmd' = get_edit_command
    /\ site' = s
    /\ pc' = "execute"

\* main calls display_shell_command(edit_command) from the call site s
ShowEditCommand(s) ==
    /\ shell_cmd' = get_edit_command
    /\ site' = s
    /\ pc' = "display"

\* main, once user_prompt is not empty: the config words, else the try block
Dispatch(up) ==
    IF Lower(up) \in ConfigWords(variant)
    THEN ShowEditCommand("config")
    ELSE /\ pc' = "load"
         /\ UNCHANGED <<shell_cmd, site>>

\* main: is_init = ConfigManager.ensure_config()
Main_EnsureConfig(res) ==
    /\ pc = "main"
    /\ IF res = "created"
       THEN /\ ShowEditCommand("init")
            /\ UNCHANGED log
       ELSE /\ pc' = "argv"
            /\ log' = IF res = "template_error"
                      THEN Append(log, Ev("print", "config_init_error",
                                Msg("shai_python", language, "config_init_error",
                                    "error" :> <<"template not found">>)))
                      ELSE log
            /\ UNCHANGED <<shell_cmd, site>>
    /\ UNCHANGED <<variant, language, stop_event, anim, idx, pending, user_prompt, empties, patIdx, returncode,
                   exit_status>>

\* main: user_prompt = " ".join(sys.argv[1:])
Main_Argv(p) ==
    /\ pc = "argv"
    /\ user_prompt' = p
    /\ IF p = <<>>
       THEN /\ pc' = "prompt"
            /\ UNCHANGED <<shell_cmd, site>>
       ELSE Dispatch(p)
    /\ UNCHANGED <<variant, language, stop_event, anim, idx, pending, empties, patIdx, log, returncode, exit_status>>

\* main: while not user_prompt: user_prompt = input(">> ").strip()
Main_InputPrompt(line) ==
    /\ pc = "prompt"
    /\ user_prompt' = Strip(line)
    /\ log' = Append(log, Ev("input", ">> ", line))
    /\ IF Strip(line) = <<>>
       THEN /\ empties < MaxEmptyPrompts
            /\ empties' = empties + 1
            /\ UNCHANGED <<pc, shell_cmd, site>>
       ELSE /\ Dispatch(Strip(line))
            /\ UNCHANGED empties
    /\ UNCHANGED <<variant, language, stop_event, anim, idx, pending, patIdx, returncode, exit_status>>

\* main: the try block that loads the configuration and builds the agent, and
\* its except branch
Main_LoadConfig(outcome) ==
    /\ pc = "load"
    /\ IF outcome = "ok"
       THEN /\ pc' = "propose"
            /\ UNCHANGED <<shell_cmd, site, log>>
       ELSE /\ log' = Append(log, Ev("print", "config_init_error",
                        <<"RED">> \o
                        Msg(variant, language, "config_init_error",
                            "error" :> ConfigErrorText(variant, language, outcome))
                        \o <<"RESET">>))
            /\ ShowEditCommand("fallback")
    /\ UNCHANGED <<variant, language, stop_event, anim, idx, pending, user_prompt, empties, patIdx, returncode,
                   exit_status>>

\* the models list of the configuration file; alias "" stands for None
ConfigModels ==
    << [id |-> "m1", alias |-> "fast", provider |-> "p1"],
       [id |-> "m2", alias |-> "", provider |-> "p2"] >>

\* configurations ConfigManager.load_and_validate may meet: the file (missing,
\* rejected by yaml or pydantic, or loaded), default_model, the providers
\* table with the api_key after ${VAR} substitution, and whether building
\* the model and the Agent raises
Configs ==
    { [file |-> f, default_model |-> d, models |-> ConfigModels,
       providers |-> ("p1" :> [api_key |-> k]), agent_raises |-> a] :
        f \in {"missing", "invalid", "loaded"},
        d \in {"m1", "fast", "m2", "gpt"},
        k \in { <<"s","k","-","1">>, <<"$","{","K","E","Y","}">> },
        a \in BOOLEAN }

\* how the try block of main ends for the configuration cfg
LoadOutcome(cfg) ==
    IF cfg.file = "missing" THEN "config_file_missing"
    ELSE IF cfg.file = "invalid" THEN "validation_error"
    ELSE LET target_name == cfg.default_model
             found == {i \in DOMAIN cfg.models :
                         \/ cfg.models[i].id = target_name
                         \/ cfg.models[i].alias = target_name}
         IN  IF found = {} THEN "model_not_found"
             ELSE LET model_entry ==
                          cfg.models[CHOOSE i \in found : \A j \in found : i <= j]
                  IN  IF model_entry.provider \notin DOMAIN cfg.providers
                      THEN "provider_not_configured"
                      ELSE IF Head(cfg.providers[model_entry.provider].api_key) = "$"
                      THEN "env_var_not_defined"
                      ELSE IF cfg.agent_raises THEN "agent_error"
                      ELSE "ok"

\* ensure_config could not write the configuration file
TemplateFailed ==
    \E i \in DOMAIN log : log[i].ev = "print" /\ log[i].key = "config_init_error"

\* main: the try block on the configuration cfg; the file is missing exactly
\* when ensure_config failed to create it
Main_Load(cfg) ==
    /\ pc = "load"
    /\ (cfg.file = "missing") <=> TemplateFailed
    /\ Main_LoadConfig(LoadOutcome(cfg))

(***************************************************************************)
(* main: the proposer call.                                                 *)
(***************************************************************************)
\* mutant of OnProposerError: the except branch falls off its end instead of
\* calling exit(1)
OnProposerError_NoExit(v, lang, e) ==
    [events |-> <<Ev("print", "error", Format(en_translations["error"], "error" :> e))>>,
     status |-> 0]

\* the except branch around agent.run_sync: what is shown, and the status
\* handed to exit()
OnProposerError(v, lang, e) ==
    IF v = "shai_python"
    THEN [events |-> <<Ev("spinner_fail", "erorr", Get(lang, "erorr", "error" :> e))>>,
          status |-> 1]
    ELSE [events |-> <<Ev("print", "error", Format(en_translations["error"], "error" :> e))>>,
          status |-> 1]

\* where main is while agent.run_sync is in flight: shai_python calls it
\* directly, shai calls it inside run_with_animation
InFlight(v) == IF v = "shai_python" THEN "propose" ELSE "func"

\* run_with_animation: the Event and the Thread are created, the thread is
\* started, and func is called
RunWithAnimation_Start ==
    /\ pc = "propose"
    /\ variant = "shai"
    /\ stop_event' = FALSE
    /\ anim' = "running"
    /\ idx' = 0
    /\ pc' = "func"
    /\ UNCHANGED <<variant, language, user_prompt, empties, shell_cmd, site, patIdx,
                   log, returncode, exit_status, pending>>

\* loading_animation: one turn of the while loop
Anim_Frame ==
    /\ anim = "running"
    /\ ~stop_event
    /\ idx < MaxFrames
    /\ idx' = idx + 1
    /\ UNCHANGED <<variant, language, pc, user_prompt, empties, shell_cmd, site,
                   patIdx, log, returncode, exit_status, stop_event, anim, pending>>

\* loading_animation: the while loop sees the event set, the line is cleared
\* and the thread ends
Anim_Exit ==
    /\ anim = "running"
    /\ stop_event
    /\ anim' = "terminated"
    /\ idx' = 0
    /\ UNCHANGED <<variant, language, pc, user_prompt, empties, shell_cmd, site,
                   patIdx, log, returncode, exit_status, stop_event, pending>>

\* agent.run_sync(user_prompt) raises e, an Exception
Main_RunSyncRaises(e) ==
    /\ pc = InFlight(variant)
    /\ IF variant = "shai_python"
       THEN LET h == OnProposerError(variant, language, e)
            IN  /\ log' = log \o <<Ev("run_sync", "raise", e)>> \o h.events
                /\ exit_status' = h.status
                /\ pc' = "exited"
                /\ UNCHANGED pending
       \* run_with_animation: except Exception as e
       ELSE /\ log' = Append(log, Ev("run_sync", "raise", e))
            /\ pending' = [kind |-> "raise", value |-> e, risk |-> <<>>]
            /\ pc' = "rwa_set"
            /\ UNCHANGED exit_status
    /\ UNCHANGED <<variant, language, stop_event, anim, idx, user_prompt, empties,
                   shell_cmd, site, patIdx, returncode>>

\* agent.run_sync(user_prompt) returns; shai_python main calls
\* display_shell_command
Main_RunSyncReturns(command, risk) ==
    /\ pc = InFlight(variant)
    /\ log' = Append(log, Ev("run_sync", "return", command))
    /\ IF variant = "shai_python"
       THEN /\ shell_cmd' = [command |-> command, risk |-> risk]
            /\ site' = "proposed"
            /\ pc' = "display"
            /\ UNCHANGED pending
       \* run_with_animation: result = func(*args, **kwargs)
       ELSE /\ pending' = [kind |-> "return", value |-> command, risk |-> risk]
            /\ pc' = "rwa_set"
            /\ UNCHANGED <<shell_cmd, site>>
    /\ UNCHANGED <<variant, language, stop_event, anim, idx, user_prompt, empties,
                   patIdx, returncode, exit_status>>

\* which handler takes a KeyboardInterrupt raised while agent.run_sync is in
\* flight: every except clause on its way is "except Exception", and
\* KeyboardInterrupt is not an Exception
InterruptHandler(v) == "uncaught"

\* Ctrl-C while agent.run_sync is in flight: KeyboardInterrupt leaves
\* agent.run_sync, run_with_animation and main; the traceback is printed and
\* the interpreter shuts down
Main_RunSyncInterrupted ==
    /\ pc = InFlight(variant)
    /\ InterruptHandler(variant) = "uncaught"
    /\ log' = log \o << Ev("run_sync", "interrupt", <<"KeyboardInterrupt">>),
                        Ev("traceback", "KeyboardInterrupt", <<"KeyboardInterrupt">>) >>
    /\ pc' = "shutdown"
    /\ UNCHANGED <<variant, language, stop_event, anim, idx, pending, user_prompt,
                   empties, shell_cmd, site, patIdx, returncode, exit_status>>

\* run_with_animation: stop_event.set(), on the return path and in the except
\* branch
RunWithAnimation_Set ==
    /\ pc = "rwa_set"
    /\ stop_event' = TRUE
    /\ pc' = "rwa_join"
    /\ UNCHANGED <<variant, language, user_prompt, empties, shell_cmd, site, patIdx,
                   log, returncode, exit_status, anim, idx, pending>>

\* run_with_animation: animation_thread.join() returns, then return result
\* (main calls display_shell_command) or raise e (main's except branch)
RunWithAnimation_Join ==
    /\ pc = "rwa_join"
    /\ anim = "terminated"
    /\ pending' = NoPending
    /\ IF pending.kind = "return"
       THEN /\ shell_cmd' = [command |-> pending.value, risk |-> pending.risk]
            /\ site' = "proposed"
            /\ pc' = "display"
            /\ UNCHANGED <<log, exit_status>>
       ELSE LET h == OnProposerError(variant, language, pending.value)
            IN  /\ log' = log \o h.events
                /\ exit_status' = h.status
                /\ pc' = "exited"
                /\ UNCHANGED <<shell_cmd, site>>
    /\ UNCHANGED <<variant, language, stop_event, anim, idx, user_prompt, empties,
                   patIdx, returncode>>

\* interpreter shutdown after the uncaught KeyboardInterrupt: it waits for
\* the threads that are not daemons, then the process ends by SIGINT (130)
ProcessShutdown ==
    /\ pc = "shutdown"
    /\ anim # "running"
    /\ pc' = "exited"
    /\ exit_status' = 130
    /\ UNCHANGED <<variant, language, stop_event, anim, idx, pending, user_prompt,
                   empties, shell_cmd, site, patIdx, log, returncode>>

(***************************************************************************)
(* display_shell_command: the risk-tier confirmation.                       *)
(***************************************************************************)
\* which prompt the tier confirmation shows
TierPromptKey(risk) ==
    IF Lower(risk) = danger THEN "risk_level_prompt" ELSE "execute_prompt"

\* mutant of TierApproves: the danger branch is missing, every tier takes the
\* y/N branch
TierApproves_NoDangerBranch(risk, line) ==
    Lower(Strip(line)) \in {y, yes}

\* mutant of TierApproves: the response is not lower-cased
TierApproves_NoLower(risk, line) ==
    LET response == Strip(line)
    IN  IF Lower(risk) = danger
        THEN IF response # yes THEN FALSE ELSE response \in {y, yes}
        ELSE response \in {y, yes}

\* whether the typed line leads to the call of execute_shell_command
TierApproves(risk, line) ==
    LET response == Lower(Strip(line))
    IN  IF Lower(risk) = danger
        THEN IF response # yes THEN FALSE ELSE response \in {y, yes}
        ELSE response \in {y, yes}

\* what display_shell_command prints and reads
DisplayEvents(v, lang, cmd, line) ==
    << Ev("print", "cmd", <<"cmd>> ", ColorOf(v, cmd.risk)>> \o cmd.command \o <<"RESET">>),
       Ev("prompt", TierPromptKey(cmd.risk),
          Msg(v, lang, TierPromptKey(cmd.risk),
              "risk_level" :> format_danger_level(v, cmd.risk))),
       Ev("input", TierPromptKey(cmd.risk), line) >>
    \o IF TierApproves(cmd.risk, line)
       THEN << Ev("call", "execute_shell_command", cmd.command) >>
       ELSE << Ev("print", "command_not_executed",
                  Msg(v, lang, "command_not_executed", NoKwargs)) >>

\* mutant of DisplayNextPc: execute_shell_command is called whatever was typed
DisplayNextPc_AlwaysExecute(risk, line) == "execute"

\* where control goes after the confirmation
DisplayNextPc(risk, line) ==
    IF TierApproves(risk, line) THEN "execute" ELSE "returned"

DisplayShellCommand(line) ==
    /\ pc = "display"
    /\ log' = log \o DisplayEvents(variant, language, shell_cmd, line)
    /\ pc' = DisplayNextPc(shell_cmd.risk, line)
    /\ patIdx' = 1
    /\ UNCHANGED <<variant, language, stop_event, anim, idx, pending, user_prompt, empties, shell_cmd, site,
                   returncode, exit_status>>

(***************************************************************************)
(* execute_shell_command: the hazard gate and the runner.                   *)
(***************************************************************************)
\* mutant of HazardConfirmed: the answer is trimmed and case-folded
HazardConfirmed_Folded(confirm) == Lower(Strip(confirm)) = yes

\* the override answer that lets the for loop go on
HazardConfirmed(confirm) == confirm = YES

\* the for loop reaches a pattern that matches: warning, prompt, answer
ExecuteHazardPrompt(confirm) ==
    /\ pc = "execute"
    /\ NextMatch(shell_cmd.command, patIdx) # 0
    /\ LET asked ==
            << Ev("print", "dangerous_pattern_detected",
                  Msg(variant, language, "dangerous_pattern_detected",
                      "command" :> shell_cmd.command)),
               Ev("prompt", "confirm_dangerous_command",
                  Msg(variant, language, "confirm_dangerous_command", NoKwargs)),
               Ev("input", "confirm_dangerous_command", confirm) >>
       IN  IF HazardConfirmed(confirm)
           THEN /\ log' = log \o asked
                /\ patIdx' = NextMatch(shell_cmd.command, patIdx) + 1
                /\ UNCHANGED pc
           ELSE /\ log' = log \o asked \o
                       << Ev("print", "dangerous_command_cancelled",
                             Msg(variant, language, "dangerous_command_cancelled",
                                 NoKwargs)) >>
                /\ pc' = "returned"
                /\ UNCHANGED patIdx
    /\ UNCHANGED <<variant, language, stop_event, anim, idx, pending, user_prompt, empties, shell_cmd, site,
                   returncode, exit_status>>

\* how the except branch for CalledProcessError ends: shai_python prints and
\* returns; shai prints and then evaluates e.stderr.strip() with e.stderr None
\* (the streams are inherited, not captured), which raises AttributeError
FailureHandler(v) == IF v = "shai_python" THEN "return" ELSE "AttributeError"

AttributeErrorText == <<"'NoneType' object has no attribute 'strip'">>

\* mutant of ExecuteRun: a command that exits non-zero is run again
ExecuteRun_Retry(code) ==
    /\ pc = "execute"
    /\ NextMatch(shell_cmd.command, patIdx) = 0
    /\ Cardinality({i \in DOMAIN log : log[i].ev = "subprocess"}) < 3
    /\ returncode' = code
    /\ log' = Append(log, Ev("subprocess", "run", shell_cmd.command))
    /\ pc' = IF code = 0 THEN "returned" ELSE "execute"
    /\ UNCHANGED <<variant, language, stop_event, anim, idx, pending, user_prompt, empties, shell_cmd, site, patIdx,
                   exit_status>>

\* the for loop is over: subprocess.run(command, shell=True, check=True)
ExecuteRun(code) ==
    /\ pc = "execute"
    /\ NextMatch(shell_cmd.command, patIdx) = 0
    /\ returncode' = code
    /\ LET ran == << Ev("subprocess", "run", shell_cmd.command) >>
           failed == << Ev("print", "command_execution_failed",
                           Msg(variant, language, "command_execution_failed",
                               "exit_code" :> CodeText[code])) >>
       IN  IF code = 0
           THEN /\ log' = log \o ran
                /\ pc' = "returned"
                /\ UNCHANGED exit_status
           ELSE IF FailureHandler(variant) = "return"
           THEN /\ log' = log \o ran \o failed
                /\ pc' = "returned"
                /\ UNCHANGED exit_status
           ELSE IF site = "proposed"
           \* shai main: the call is inside try ... except Exception
           THEN /\ log' = log \o ran \o failed \o
                       << Ev("print", "error",
                             Format(en_translations["error"],
                                    "error" :> AttributeErrorText)) >>
                /\ pc' = "exited"
                /\ exit_status' = 1
           \* shai main: the other calls are outside any try
           ELSE /\ log' = log \o ran \o failed \o
                       << Ev("traceback", "AttributeError", AttributeErrorText) >>
                /\ pc' = "exited"
                /\ exit_status' = 1
    /\ UNCHANGED <<variant, language, stop_event, anim, idx, pending, user_prompt, empties, shell_cmd, site, patIdx>>

\* main returns: the interpreter exits with status 0
ProcessExit ==
    /\ pc = "returned"
    /\ pc' = "exited"
    /\ exit_status' = 0
    /\ UNCHANGED <<variant, language, stop_event, anim, idx, pending, user_prompt, empties, shell_cmd, site, patIdx,
                   log, returncode>>

Next ==
    \/ \E res \in EnsureResults : Main_EnsureConfig(res)
    \/ \E p \in ArgvPrompts : Main_Argv(p)
    \/ \E line \in PromptLines : Main_InputPrompt(line)
    \/ \E cfg \in Configs : Main_Load(cfg)
    \/ RunWithAnimation_Start
    \/ Anim_Frame
    \/ Anim_Exit
    \/ \E e \in ProposerErrors : Main_RunSyncRaises(e)
    \/ Main_RunSyncInterrupted
    \/ RunWithAnimation_Set
    \/ RunWithAnimation_Join
    \/ ProcessShutdown
    \/ \E command \in Commands, risk \in Risks : Main_RunSyncReturns(command, risk)
    \/ \E line \in Lines : DisplayShellCommand(line)
    \/ \E confirm \in Lines : ExecuteHazardPrompt(confirm)
    \/ \E code \in ExitCodes : ExecuteRun(code)
    \/ ProcessExit

Spec == Init /\ [][Next]_vars

(***************************************************************************)
(* Reading the log.                                                         *)
(***************************************************************************)
\* positions of the lines read at the risk-tier confirmation
TierInputs ==
    {i \in DOMAIN log : log[i].ev = "input"
                        /\ log[i].key \in {"risk_level_prompt", "execute_prompt"}}

\* positions of the lines read at the hazard override prompt
HazardInputs ==
    {i \in DOMAIN log : log[i].ev = "input" /\ log[i].key = "confirm_dangerous_command"}

\* positions of the subprocess launches
Launches == {i \in DOMAIN log : log[i].ev = "subprocess"}

\* the confirmation read at position i ended in the call of execute_shell_command
Approved(i) == i < Len(log) /\ log[i + 1].ev = "call"

\* the confirmation read at position i ended in "Command not executed."
Rejected(i) ==
    i < Len(log) /\ log[i + 1].ev = "print" /\ log[i + 1].key = "command_not_executed"

\* the command matches at least one hazard pattern
Hazardous(command) == MatchingPatterns(command) # {}

\* positions of the proposer calls that raised
ProposerFailures ==
    {i \in DOMAIN log : log[i].ev = "run_sync" /\ log[i].key = "raise"}

\* the ExecutionOutcome of the run so far
Outcome ==
    IF Launches = {} THEN "not_executed"
    ELSE IF returncode = 0 THEN "executed_success"
    ELSE "executed_failure"

C3_UnknownTierIsStrict ==
    (site = "proposed" /\ Lower(shell_cmd.risk) \notin KnownTiers) =>
        \A i \in TierInputs :
            /\ Approved(i) => Lower(Strip(log[i].text)) = yes
            /\ log[i].text = y => Rejected(i)

(***************************************************************************)
(* C4: a declined confirmation launches nothing.                            *)
(***************************************************************************)
\* C4: once the risk-tier confirmation was declined, no subprocess has been
\* launched, no hazard override has been read, and the outcome is
\* not_executed, in every later state of the run.
C4_RejectedNeverLaunches ==
    \A i \in TierInputs :
        ~Approved(i) =>
            /\ Rejected(i)
            /\ Launches = {}
            /\ HazardInputs = {}
            /\ returncode = -1
            /\ Outcome = "not_executed"
            /\ pc \in {"returned", "exited"}

\* the run is over after the confirmation of a hazardous command was declined
C4_Witness ==
    /\ pc = "exited"
    /\ Hazardous(shell_cmd.command)
    /\ \E i \in TierInputs : Rejected(i)

(***************************************************************************)
(* C5: the hazard override token.                                           *)
(***************************************************************************)
\* C5: a command that matches a hazard pattern is launched only after a
\* hazard override was read and every override answer was exactly "YES"; an
\* answer that is anything else is followed by the cancellation message,
\* no further prompt and no launch.
C5_OverrideOnlyExactYES ==
    /\ (Hazardous(shell_cmd.command) /\ Launches # {}) =>
          /\ HazardInputs # {}
          /\ \A j \in HazardInputs : log[j].text = YES
    /\ \A j \in HazardInputs :
          log[j].text # YES =>
              /\ Launches = {}
              /\ j + 1 = Len(log)
              /\ log[j + 1].key = "dangerous_command_cancelled"
              /\ pc \in {"returned", "exited"}

\* a hazardous command was launched after its override
C5_Witness ==
    /\ Hazardous(shell_cmd.command)
    /\ Launches # {}
    /\ pc = "exited"

(***************************************************************************)
(* C6: the safe and caution confirmation.                                   *)
(***************************************************************************)
\* C6 as stated: with the declared tier safe or caution, the confirmation is
\* approved for "y" and "yes" in any letter case and rejected for every other
\* typed line.
C6_LightOnlyYOrYes ==
    Lower(shell_cmd.risk) \in {safe, caution} =>
        \A i \in TierInputs : Approved(i) <=> Lower(log[i].text) \in {y, yes}

\* C6 amended: with the declared tier safe or caution, the confirmation is
\* approved exactly when the typed line, with leading and trailing whitespace
\* removed and lower-cased, is "y" or "yes"; every other line, the empty line
\* and "n" among them, is rejected.
C6_LightYOrYesTrimmed ==
    Lower(shell_cmd.risk) \in {safe, caution} =>
        \A i \in TierInputs :
            /\ Approved(i) <=> Lower(Strip(log[i].text)) \in {y, yes}
            /\ log[i].text \in {y, <<"Y">>, yes, YES, <<"Y","e","s">>} => Approved(i)
            /\ log[i].text \in {<<>>, <<"n">>} => Rejected(i)
            /\ Approved(i) \/ Rejected(i)
            /\ log[i].key = "execute_prompt"

C6_Witness ==
    /\ Lower(shell_cmd.risk) = caution
    /\ \E i \in TierInputs : log[i].text = <<"Y">> /\ Approved(i)
    /\ Launches # {}

(***************************************************************************)
(* C7: recursive forced deletes of /.                                       *)
(***************************************************************************)
\* C7: a command that is a recursive forced delete of /, for any run of
\* blanks between the tokens and any spelling of the flags, is never launched
\* without the hazard override prompt having been raised.
C7_RmRootAlwaysFlagged ==
    (shell_cmd.command \in RmRootCommands /\ Launches # {}) => HazardInputs # {}

(***************************************************************************)
(* C8: the proposer call raises.                                            *)
(***************************************************************************)
\* C8: when agent.run_sync raised, the process has exited with a non-zero
\* status, the proposer was called once, and no command line was printed, no
\* confirmation or override was prompted or read and no subprocess launched.
C8_ProposerFailureEndsRun ==
    ProposerFailures # {} =>
        /\ pc \in {"rwa_set", "rwa_join", "exited"}
        /\ pc = "exited" => exit_status > 0
        /\ Cardinality({i \in DOMAIN log : log[i].ev = "run_sync"}) = 1
        /\ \A i \in DOMAIN log :
              /\ log[i].ev \notin {"prompt", "call", "subprocess"}
              /\ log[i].key # "cmd"
        /\ TierInputs = {}
        /\ HazardInputs = {}
        /\ shell_cmd = NoCommand

C8_Witness ==
    /\ ProposerFailures # {}
    /\ pc = "exited"

(***************************************************************************)
(* C9: the exit status of the tool.                                         *)
(***************************************************************************)
\* C9: a run in which the proposer call did not fail exits with status 0,
\* whether the user declined, or the command exited 0 or non-zero.
C9_ExitZeroUnlessProposerFails ==
    (/\ pc = "exited"
     /\ ProposerFailures = {}
     /\ \A i \in DOMAIN log : log[i].key # "interrupt") => exit_status = 0

(***************************************************************************)
(* C10: what is shown when the proposer call raises.                        *)
(***************************************************************************)
\* C10: when agent.run_sync raised e, a text shown after it contains str(e).
C10_FailureShowsMessage ==
    \A i \in ProposerFailures :
        pc = "exited" =>
        \E j \in DOMAIN log :
            /\ j > i
            /\ log[j].ev \in {"print", "spinner_fail"}
            /\ Contains(log[j].text, log[i].text)

(***************************************************************************)
(* C11: a command that exits non-zero.                                      *)
(***************************************************************************)
\* C11: when the launched command exited non-zero, the failure with its exit
\* code has been printed and execute_shell_command returned normally: no
\* exception left it, so no traceback and no secondary "Error:" of the host
\* follows, on the proposed-command path and on the config-edit paths.
C11_FailureReportedAndReturned ==
    (Launches # {} /\ returncode > 0) =>
        /\ \E i \in DOMAIN log :
              /\ log[i].ev = "print"
              /\ log[i].key = "command_execution_failed"
              /\ Contains(log[i].text, CodeText[returncode])
        /\ \A i \in DOMAIN log :
              /\ log[i].ev # "traceback"
              /\ ~(log[i].ev = "print" /\ log[i].key = "error")
        /\ pc \in {"returned", "exited"}
        /\ pc = "exited" => exit_status = 0

(***************************************************************************)
(* C12: the runner is one-shot.                                             *)
(***************************************************************************)
\* C12: in every run subprocess.run is invoked at most once; once the command
\* has exited, with whatever status, control has left the runner and no
\* further launch follows.
C12_RunnerIsOneShot ==
    /\ Cardinality(Launches) <= 1
    /\ returncode # -1 =>
          /\ Cardinality(Launches) = 1
          /\ pc \in {"returned", "exited"}
    /\ returncode = -1 => Launches = {}

\* the proposed command ran once, exited non-zero, and the run is over
C12_Witness ==
    /\ site = "proposed"
    /\ returncode > 0
    /\ Cardinality(Launches) = 1
    /\ pc = "exited"

(***************************************************************************)
(* C14: commands that match no hazard pattern.                              *)
(***************************************************************************)
\* C14: for a command that matches no hazard pattern the hazard gate reads
\* nothing and prints nothing; once display_shell_command is over, the command
\* was launched exactly when the risk-tier confirmation was approved, and
\* launched once; after exit status 0 the outcome is executed_success and no
\* failure message was printed.
C14_NoMatchGateIsNoOp ==
    ~Hazardous(shell_cmd.command) =>
        /\ HazardInputs = {}
        /\ \A i \in DOMAIN log :
              log[i].key \notin {"dangerous_pattern_detected",
                                 "confirm_dangerous_command",
                                 "dangerous_command_cancelled"}
        /\ pc \in {"returned", "exited"} =>
              (Launches # {} <=> \E i \in TierInputs : Approved(i))
        /\ Cardinality(Launches) <= 1
        /\ returncode = 0 =>
              /\ Outcome = "executed_success"
              /\ \A i \in DOMAIN log : log[i].key # "command_execution_failed"

\* Scenario B: ls -la declared safe, answered "y", ran and exited 0
C14_Witness ==
    /\ shell_cmd = [command |-> LsLa, risk |-> safe]
    /\ \E i \in TierInputs : log[i].text = y
    /\ Cardinality(Launches) = 1
    /\ returncode = 0
    /\ pc = "exited"

(***************************************************************************)
(* C16: one override per matching pattern.                                  *)
(***************************************************************************)
\* C16: for a command that matches k hazard patterns at most k override
\* answers are read, in pattern-list order (after n answers the loop is past
\* the n-th matching pattern); the command is launched only after k answers
\* that are all exactly "YES"; an answer that is not "YES" is the last one
\* read and no launch follows it.
C16_OneOverridePerMatchingPattern ==
    LET matching == MatchingPatterns(shell_cmd.command)
    IN  /\ Cardinality(HazardInputs) <= Cardinality(matching)
        /\ (pc = "execute" \/ Launches # {}) =>
              /\ Cardinality({m \in matching : m < patIdx}) = Cardinality(HazardInputs)
              /\ \A j \in HazardInputs : log[j].text = YES
        /\ Launches # {} => Cardinality(HazardInputs) = Cardinality(matching)
        /\ \A j \in HazardInputs :
              log[j].text # YES =>
                  /\ Launches = {}
                  /\ \A n \in HazardInputs : n <= j
                  /\ pc \in {"returned", "exited"}

\* rm -rf / ; rm -rf * was launched after two overrides
C16_Witness ==
    /\ shell_cmd.command = RmRootRmStar
    /\ Cardinality(MatchingPatterns(shell_cmd.command)) = 2
    /\ Cardinality(HazardInputs) = 2
    /\ Launches # {}

(***************************************************************************)
(* C15: errors of the collaborators.                                        *)
(***************************************************************************)
\* positions of the configuration errors printed by main
MainConfigErrors ==
    {i \in DOMAIN log : /\ log[i].ev = "print"
                        /\ log[i].key = "config_init_error"
                        /\ Head(log[i].text) = "RED"}

\* C15 as stated: a configuration error and an unreachable model are both
\* routed to the fallback path: the config-edit command is presented through
\* the confirmation gate.
C15_AllCollaboratorErrorsFallBack ==
    (MainConfigErrors # {} \/ (ProposerFailures # {} /\ pc = "exited")) =>
        /\ site = "fallback"
        /\ shell_cmd = get_edit_command

\* C15 amended: when config loading or validation, model lookup, provider
\* lookup, API-key resolution or agent construction raises, main prints the
\* error, makes no proposer call and presents the config-edit command (tier
\* safe) through the normal confirmation gate, which alone lets it run.  When
\* the model is unreachable the failure is caught at the top level too, with no
\* raw trace, but it is not routed to the fallback path: a failure text is
\* shown, no command is presented and the process exits with status 1.
C15_ConfigErrorsFallBack ==
    /\ site = "fallback" <=> MainConfigErrors # {}
    /\ \A i \in MainConfigErrors :
          /\ \A j \in DOMAIN log : log[j].ev # "run_sync"
          /\ shell_cmd = get_edit_command
          /\ Lower(shell_cmd.risk) = safe
          /\ \A j \in TierInputs : j > i /\ log[j].key = "execute_prompt"
          /\ \A j \in HazardInputs \cup Launches :
                \E k \in TierInputs : k < j /\ Approved(k)
          /\ Launches = {} => \A j \in DOMAIN log : log[j].ev # "traceback"
          /\ pc # "display" => TierInputs # {}
    /\ (ProposerFailures # {} /\ pc = "exited") =>
          /\ exit_status = 1
          /\ site = "none"
          /\ shell_cmd = NoCommand
          /\ \A j \in DOMAIN log : log[j].ev # "traceback"
          /\ log[Len(log)].ev \in {"print", "spinner_fail"}

\* after an undefined environment variable the edit command was confirmed and run
C15_Witness ==
    /\ site = "fallback"
    /\ \E i \in MainConfigErrors :
          Contains(log[i].text, <<"$API_KEY">>)
    /\ Launches # {}

(***************************************************************************)
(* C13: run_with_animation stops and joins the animation thread.            *)
(***************************************************************************)
\* control is inside run_with_animation
InRunWithAnimation == pc \in {"func", "rwa_set", "rwa_join"}

\* C13: whenever control has left run_with_animation, by returning func's
\* result or by propagating whatever func raised, the stop event is set and
\* the animation thread has terminated.
C13_AnimationStoppedOnLeave ==
    (anim # "none" /\ ~InRunWithAnimation) =>
        /\ stop_event
        /\ anim = "terminated"

====
